---- MODULE Spec2Model ----
(***************************************************************************)
(* Model of scripts/deploy.ts (CloudflareDeploymentManager).               *)
(*                                                                         *)
(* Spec     : one run of the script, i.e. the construction of the manager  *)
(*            followed by deploy().                                        *)
(* SpecProv : the provisioning operations ensureDispatchNamespace and      *)
(*            ensureAIGateway, run repeatedly against one control plane.   *)
(*                                                                         *)
(* Strings are sequences of one-character strings, so that prefix tests,   *)
(* substring tests, parseInt and length checks are computed the way the    *)
(* code computes them.                                                     *)
(***************************************************************************)
EXTENDS Integers, Sequences, FiniteSets, TLC

VARIABLES
    env,         \* process.env restricted to the names the script reads
    wrangler,    \* wrangler.jsonc on disk: [exists, text]
    prodVars,    \* .prod.vars on disk: [exists, text]
    templates,   \* templates/ on disk: [dir, git, script], which of them exist
    config,      \* this.config, the tree parsed by the constructor
    patch,       \* updateContainerConfiguration: content, updatedContent, progress
    pc,          \* position of the run
    exitStatus,  \* process exit status; Running while the process lives
    thrown,      \* <<e>> once an error e unwound to deploy()'s catch or to top level
    trace,       \* external effects of the run (files, processes), in program order
    warnings,    \* console.warn reports of recoverable failures, in order
    stderr,      \* lines printed by the catch block of deploy()
    cp,          \* control plane: the resources that exist remotely
    calls,       \* number of remote calls issued so far, per kind of call
    prov,        \* position, locals and outcome of each provisioning operation
    round        \* which of the consecutive provisioning runs is executing

vars == <<env, wrangler, prodVars, templates, config, patch, pc, exitStatus, thrown, trace,
          warnings, stderr, cp, calls, prov, round>>

runVars == <<patch, pc, exitStatus, thrown, trace, warnings, stderr>>

fileVars == <<wrangler, prodVars, templates>>

provVars == <<cp, calls, prov, round>>

-----------------------------------------------------------------------------
(* Strings *)

Undefined == [def |-> FALSE, s |-> <<>>]

Str(t) == [def |-> TRUE, s |-> t]

\* JavaScript truthiness of a value that is a string or undefined
Truthy(v) == v.def /\ Len(v.s) > 0

\* String.prototype.startsWith
StartsWith(s, p) == Len(s) >= Len(p) /\ SubSeq(s, 1, Len(p)) = p

\* String.prototype.indexOf: 0-based position of the first occurrence, or -1
IndexOf(s, p) ==
    LET hits == {i \in 1..(Len(s) - Len(p) + 1) : SubSeq(s, i, i + Len(p) - 1) = p}
    IN  IF hits = {} THEN -1
        ELSE (CHOOSE i \in hits : \A j \in hits : i <= j) - 1

\* String.prototype.includes
Includes(s, p) == IndexOf(s, p) # -1

Digits == <<"0", "1", "2", "3", "4", "5", "6", "7", "8", "9">>

IsDigit(c) == \E d \in 1..10 : Digits[d] = c

DigitVal(c) == (CHOOSE d \in 1..10 : Digits[d] = c) - 1

RECURSIVE SkipSpaces(_, _)
SkipSpaces(s, i) ==
    IF i <= Len(s) /\ s[i] = " " THEN SkipSpaces(s, i + 1) ELSE i

RECURSIVE DigitsValue(_, _, _)
DigitsValue(s, i, acc) ==
    IF i > Len(s) \/ ~IsDigit(s[i]) THEN acc
    ELSE DigitsValue(s, i + 1, acc * 10 + DigitVal(s[i]))

NaN == [nan |-> TRUE, n |-> 0]

\* parseInt(s, 10): leading blanks, an optional sign, then the longest run of
\* digits; NaN when there is no digit
ParseInt(s) ==
    LET b == SkipSpaces(s, 1)
        signed == b <= Len(s) /\ s[b] \in {"-", "+"}
        d == IF signed THEN b + 1 ELSE b
    IN  IF d > Len(s) \/ ~IsDigit(s[d]) THEN NaN
        ELSE [nan |-> FALSE,
              n |-> IF signed /\ s[b] = "-" THEN 0 - DigitsValue(s, d, 0)
                    ELSE DigitsValue(s, d, 0)]

-----------------------------------------------------------------------------
(* Literals of the script *)

S_notFound == <<"n", "o", "t", " ", "f", "o", "u", "n", "d">>

S_optional == <<"o", "p", "t", "i", "o", "n", "a", "l", "-">>

S_your == <<"y", "o", "u", "r", "-">>

PlaceholderToken ==
    <<"o", "p", "t", "i", "o", "n", "a", "l", "-", "y", "o", "u", "r", "-",
      "c", "f", "-", "a", "i", "-", "g", "a", "t", "e", "w", "a", "y", "-",
      "t", "o", "k", "e", "n">>

SandboxClass == "UserAppSandboxService"

GatewayNameLimit == 64

requiredVars ==
    <<"CLOUDFLARE_API_TOKEN", "CLOUDFLARE_ACCOUNT_ID", "TEMPLATES_REPOSITORY">>

secretVars ==
    <<"CLOUDFLARE_API_TOKEN", "CLOUDFLARE_ACCOUNT_ID", "TEMPLATES_REPOSITORY",
      "CLOUDFLARE_AI_GATEWAY", "CLOUDFLARE_AI_GATEWAY_URL",
      "CLOUDFLARE_AI_GATEWAY_TOKEN", "ANTHROPIC_API_KEY", "OPENAI_API_KEY",
      "GEMINI_API_KEY", "OPENROUTER_API_KEY", "GROQ_API_KEY",
      "GOOGLE_CLIENT_SECRET", "GOOGLE_CLIENT_ID", "GITHUB_CLIENT_ID",
      "GITHUB_CLIENT_SECRET", "JWT_SECRET", "WEBHOOK_SECRET",
      "MAX_SANDBOX_INSTANCES">>

EnvNames == {secretVars[i] : i \in 1..Len(secretVars)}

-----------------------------------------------------------------------------
(* Errors *)

\* class DeploymentError: a message and an optional cause
DeploymentError(message, cause) ==
    [name |-> "DeploymentError", message |-> message, cause |-> cause]

\* an Error raised by the file system or by a child process
PlainError(message) == [name |-> "Error", message |-> message, cause |-> <<>>]

-----------------------------------------------------------------------------
(* wrangler.jsonc: the text is a sequence of lines, comments included *)

Comment(n) == [k |-> "comment", n |-> n]

\* a line that is not JSONC: a stray token, an unterminated string
Garbage == [k |-> "garbage"]

NameLine == [k |-> "name", v |-> "orange-build"]

DispatchLine == [k |-> "dispatch", binding |-> "DISPATCHER", namespace |-> "orange-build-ns"]

BucketLine == [k |-> "r2", binding |-> "TEMPLATES_BUCKET", bucket_name |-> "templates"]

NoField == [def |-> FALSE, n |-> 0]

Field(n) == [def |-> TRUE, n |-> n]

Container(cls, max, note) ==
    [class_name |-> cls, image |-> "./Dockerfile", max_instances |-> max, note |-> note]

ContainersLine(entries) == [k |-> "containers", entries |-> entries]

NoTree == [def |-> FALSE, name |-> "", dispatch_namespaces |-> <<>>,
           r2_buckets |-> <<>>, hasContainers |-> FALSE, containers |-> <<>>]

LinesOf(text, kind) == SelectSeq(text, LAMBDA l : l.k = kind)

StripNote(c) ==
    [class_name |-> c.class_name, image |-> c.image, max_instances |-> c.max_instances]

\* jsonc-parser parse(): the tree of the text, comments dropped; undefined for
\* a text without any value. The parser is fault tolerant: it never throws,
\* skips what it cannot read and returns the tree of the rest
parse(text) ==
    IF LinesOf(text, "name") = <<>> /\ LinesOf(text, "dispatch") = <<>>
       /\ LinesOf(text, "r2") = <<>> /\ LinesOf(text, "containers") = <<>>
    THEN NoTree
    ELSE [def |-> TRUE,
          name |-> IF LinesOf(text, "name") = <<>> THEN ""
                   ELSE LinesOf(text, "name")[1].v,
          dispatch_namespaces |->
              [i \in 1..Len(LinesOf(text, "dispatch")) |->
                  [binding |-> LinesOf(text, "dispatch")[i].binding,
                   namespace |-> LinesOf(text, "dispatch")[i].namespace]],
          r2_buckets |->
              [i \in 1..Len(LinesOf(text, "r2")) |->
                  [binding |-> LinesOf(text, "r2")[i].binding,
                   bucket_name |-> LinesOf(text, "r2")[i].bucket_name]],
          hasContainers |-> LinesOf(text, "containers") # <<>>,
          containers |->
              IF LinesOf(text, "containers") = <<>> THEN <<>>
              ELSE [i \in 1..Len(LinesOf(text, "containers")[1].entries) |->
                      StripNote(LinesOf(text, "containers")[1].entries[i])]]

\* a fixed index in place of the search: the first entry of the array
findIndex_fixed(containers, cls) == IF containers = <<>> THEN 0 ELSE 1

\* Array.prototype.findIndex on config.containers, 1-based; 0 stands for -1
findIndex(containers, cls) ==
    LET hits == {i \in 1..Len(containers) : containers[i].class_name = cls}
    IN  IF hits = {} THEN 0 ELSE CHOOSE i \in hits : \A j \in hits : i <= j

\* the patched tree written back as plain JSON: the value is set, comments
\* and notes are lost
modifyMaxInstances_reserialize(text, idx, n) ==
    LET values == SelectSeq(text, LAMBDA l : l.k # "comment")
    IN  [l \in 1..Len(values) |->
            IF values[l].k = "containers"
            THEN [values[l] EXCEPT !.entries =
                     [i \in 1..Len(@) |->
                         [@[i] EXCEPT !.note = 0,
                                      !.max_instances = IF i = idx THEN Field(n) ELSE @]]]
            ELSE values[l]]

\* the value added to the one the entry holds, in place of being set
modifyMaxInstances_increment(text, idx, n) ==
    [l \in 1..Len(text) |->
        IF text[l].k = "containers"
           /\ l = (CHOOSE m \in 1..Len(text) :
                      /\ text[m].k = "containers"
                      /\ \A j \in 1..(m - 1) : text[j].k # "containers")
        THEN [text[l] EXCEPT !.entries[idx].max_instances = Field(@.n + n)]
        ELSE text[l]]

\* applyEdits(content, modify(content, ['containers', idx, 'max_instances'], n)):
\* the text with the value of that property set to n (the property is added
\* when the entry has none); every other line and every note is kept
modifyMaxInstances(text, idx, n) ==
    [l \in 1..Len(text) |->
        IF text[l].k = "containers"
           /\ l = (CHOOSE m \in 1..Len(text) :
                      /\ text[m].k = "containers"
                      /\ \A j \in 1..(m - 1) : text[j].k # "containers")
        THEN [text[l] EXCEPT !.entries[idx].max_instances = Field(n)]
        ELSE text[l]]

-----------------------------------------------------------------------------
(* Pure parts of the manager *)

Msg(text, names) == [text |-> text, names |-> names]

\* missingVars that reports the first missing name only (find instead of filter)
missingVars_first(e) ==
    SubSeq(SelectSeq(requiredVars, LAMBDA v : ~Truthy(e[v])), 1, 1)

\* validateEnvironment, line 99: the required names whose value is falsy
missingVars(e) == SelectSeq(requiredVars, LAMBDA v : ~Truthy(e[v]))

\* validateEnvironment that tests for undefined only, so that an empty value passes
validateEnvironment_definedOnly(e) ==
    IF \E i \in 1..Len(requiredVars) : ~e[requiredVars[i]].def
    THEN <<DeploymentError(Msg("Missing required environment variables", missingVars(e)), <<>>)>>
    ELSE <<>>

\* validateEnvironment: <<>> when it returns, <<error>> when it throws
validateEnvironment(e) ==
    IF Len(missingVars(e)) > 0
    THEN <<DeploymentError(Msg("Missing required environment variables", missingVars(e)), <<>>)>>
    ELSE <<>>

\* lines 619-631 without the placeholder test of line 623
secretLine_noPlaceholderTest(e, varName) ==
    IF Truthy(e[varName])
    THEN [live |-> TRUE, name |-> varName, value |-> e[varName].s, note |-> ""]
    ELSE [live |-> FALSE, name |-> varName, value |-> <<>>,
          note |-> "Not set in current environment"]

\* createProdVarsFile, lines 619-631: the line emitted for one name
secretLine(e, varName) ==
    IF Truthy(e[varName])
    THEN IF StartsWith(e[varName].s, S_optional) \/ StartsWith(e[varName].s, S_your)
         THEN [live |-> FALSE, name |-> varName, value |-> e[varName].s,
               note |-> "Placeholder - update with actual value"]
         ELSE [live |-> TRUE, name |-> varName, value |-> e[varName].s, note |-> ""]
    ELSE [live |-> FALSE, name |-> varName, value |-> <<>>,
          note |-> "Not set in current environment"]

HeaderLine(note) == [live |-> FALSE, name |-> "", value |-> <<>>, note |-> note]

\* createProdVarsFile, lines 611-635: the content written to .prod.vars
prodVarsContent(e) ==
    <<HeaderLine("Production environment variables for Cloudflare Orange Build"),
      HeaderLine("Generated automatically during deployment"),
      HeaderLine(""),
      HeaderLine("Essential Secrets:")>>
    \o [i \in 1..Len(secretVars) |-> secretLine(e, secretVars[i])]
    \o <<HeaderLine(""),
         [live |-> TRUE, name |-> "ENVIRONMENT",
          value |-> <<"p", "r", "o", "d", "u", "c", "t", "i", "o", "n">>, note |-> ""]>>

\* the catch block of deploy(), lines 738-754
diagnostics(e) ==
    <<Msg("Deployment failed", <<>>), e.message>>
    \o (IF e.cause # <<>> THEN <<Msg("Caused by", <<>>), e.cause[1].message>> ELSE <<>>)
    \o <<Msg("Troubleshooting tips", <<>>)>>

-----------------------------------------------------------------------------
(* One run: new CloudflareDeploymentManager() followed by deploy() *)

Running == <<>>

Exited(code) == <<code>>

\* what the runtime prints for an uncaught exception: the error with its own
\* properties, the cause among them
uncaughtReport(e) ==
    <<e.message>> \o (IF e.cause # <<>> THEN <<e.cause[1].message>> ELSE <<>>)

\* an error escaped the constructor: the process dies on the uncaught exception
Uncaught(e) ==
    /\ thrown' = <<e>>
    /\ stderr' = uncaughtReport(e)
    /\ exitStatus' = Exited(1)
    /\ pc' = "exited"

\* the catch block of deploy() without process.exit(1): the process ends normally
Caught_noExit(e) ==
    /\ thrown' = <<e>>
    /\ stderr' = diagnostics(e)
    /\ exitStatus' = Exited(0)
    /\ pc' = "exited"

\* an error reached the catch block of deploy(), lines 737-757
Caught(e) ==
    /\ thrown' = <<e>>
    /\ stderr' = diagnostics(e)
    /\ exitStatus' = Exited(1)
    /\ pc' = "exited"

\* lines 762-763 and the constructor, lines 80-87: validateEnvironment,
\* parseWranglerConfig, getEnvironmentVariables
Construct ==
    /\ pc = "start"
    /\ UNCHANGED <<env, fileVars, patch, warnings, provVars>>
    /\ IF validateEnvironment(env) # <<>>
       THEN /\ Uncaught(validateEnvironment(env)[1])
            /\ UNCHANGED <<trace, config>>
       ELSE IF ~wrangler.exists
       THEN /\ trace' = trace \o <<"existsSync wrangler.jsonc">>
            /\ Uncaught(DeploymentError(Msg("wrangler.jsonc file not found in project root", <<>>), <<>>))
            /\ UNCHANGED config
       ELSE \E readOk \in BOOLEAN :
            /\ trace' = trace \o <<"existsSync wrangler.jsonc", "readFileSync wrangler.jsonc">>
                            \o (IF readOk THEN <<>> ELSE <<"readFileSync wrangler.jsonc failed">>)
            /\ IF ~readOk
               THEN /\ Uncaught(DeploymentError(Msg("Failed to parse wrangler.jsonc file", <<>>),
                                                <<PlainError(Msg("EACCES", <<>>))>>))
                    /\ UNCHANGED config
               ELSE IF ~parse(wrangler.text).def
               THEN /\ Uncaught(DeploymentError(Msg("Failed to parse wrangler.jsonc file", <<>>),
                                                <<PlainError(Msg("Cannot read properties of undefined", <<>>))>>))
                    /\ UNCHANGED config
               ELSE /\ config' = parse(wrangler.text)
                    /\ pc' = "step6"
                    /\ UNCHANGED <<thrown, exitStatus, stderr>>

NoPatch == [state |-> "none", content |-> <<>>, updatedContent |-> <<>>]

\* lines 530-535 with a catch block that reports the failure and returns
containerUpdateResult_swallow(cause) == <<>>

\* lines 530-535: the catch block of updateContainerConfiguration
containerUpdateResult(cause) ==
    <<DeploymentError(Msg("Failed to update container configuration", <<>>),
                      <<PlainError(Msg(cause, <<>>))>>)>>

\* a failure inside the try block of updateContainerConfiguration, as deploy()
\* sees it
containerUpdateFailed(cause) ==
    IF containerUpdateResult(cause) = <<>>
    THEN /\ pc' = "step7"
         /\ UNCHANGED <<stderr, thrown, exitStatus>>
    ELSE Caught(containerUpdateResult(cause)[1])

\* deploy(), lines 720-722, with updateContainerConfiguration, lines 469-527,
\* up to the point where writeFileSync has opened wrangler.jsonc for writing
invalidMaxInstances_negativeOnly(p) == p.nan \/ p.n < 0

\* line 478: isNaN(maxInstancesNum) || maxInstancesNum <= 0
invalidMaxInstances(p) == p.nan \/ p.n <= 0

updateContainerConfiguration ==
    /\ pc = "step6"
    /\ UNCHANGED <<env, prodVars, templates, config, provVars>>
    /\ IF ~Truthy(env["MAX_SANDBOX_INSTANCES"])
       THEN /\ pc' = "step7"
            /\ UNCHANGED <<wrangler, patch, trace, warnings, stderr, thrown, exitStatus>>
       ELSE IF invalidMaxInstances(ParseInt(env["MAX_SANDBOX_INSTANCES"].s))
       THEN /\ pc' = "step7"
            /\ warnings' = Append(warnings, "Invalid MAX_SANDBOX_INSTANCES value")
            /\ UNCHANGED <<wrangler, patch, trace, stderr, thrown, exitStatus>>
       ELSE \E readOk \in BOOLEAN, openOk \in BOOLEAN :
            LET num == ParseInt(env["MAX_SANDBOX_INSTANCES"].s).n
                cfg == parse(wrangler.text)
                idx == findIndex(cfg.containers, SandboxClass)
                read == [NoPatch EXCEPT !.state = "read", !.content = wrangler.text]
            IN  IF ~wrangler.exists \/ ~readOk
                THEN /\ trace' = trace \o <<"readFileSync wrangler.jsonc",
                                            "readFileSync wrangler.jsonc failed">>
                     /\ patch' = [NoPatch EXCEPT !.state = "failed"]
                     /\ containerUpdateFailed("ENOENT")
                     /\ UNCHANGED <<wrangler, warnings>>
                ELSE IF ~cfg.def
                THEN /\ trace' = Append(trace, "readFileSync wrangler.jsonc")
                     /\ patch' = [read EXCEPT !.state = "failed"]
                     /\ containerUpdateFailed("Cannot read properties of undefined")
                     /\ UNCHANGED <<wrangler, warnings>>
                ELSE IF ~cfg.hasContainers
                THEN /\ trace' = Append(trace, "readFileSync wrangler.jsonc")
                     /\ warnings' = Append(warnings, "No containers configuration found")
                     /\ patch' = read
                     /\ pc' = "step7"
                     /\ UNCHANGED <<wrangler, stderr, thrown, exitStatus>>
                ELSE IF idx = 0
                THEN /\ trace' = Append(trace, "readFileSync wrangler.jsonc")
                     /\ warnings' = Append(warnings, "UserAppSandboxService container not found")
                     /\ patch' = read
                     /\ pc' = "step7"
                     /\ UNCHANGED <<wrangler, stderr, thrown, exitStatus>>
                ELSE LET updatedContent == modifyMaxInstances(wrangler.text, idx, num)
                     IN  IF openOk
                         THEN \* fs.writeFileSync opens the file with flag 'w': the
                              \* file is empty from here until the data is written
                              /\ trace' = trace \o <<"readFileSync wrangler.jsonc",
                                                     "writeFileSync wrangler.jsonc">>
                              /\ wrangler' = [wrangler EXCEPT !.text = <<>>]
                              /\ patch' = [read EXCEPT !.state = "writing",
                                                       !.updatedContent = updatedContent]
                              /\ pc' = "step6 writing"
                              /\ UNCHANGED <<warnings, stderr, thrown, exitStatus>>
                         ELSE /\ trace' = trace \o <<"readFileSync wrangler.jsonc",
                                                     "writeFileSync wrangler.jsonc",
                                                     "writeFileSync wrangler.jsonc failed">>
                              /\ patch' = [read EXCEPT !.state = "failed",
                                                       !.updatedContent = updatedContent]
                              /\ containerUpdateFailed("EACCES")
                              /\ UNCHANGED <<wrangler, warnings>>

\* line 527, the rest of writeFileSync(wranglerPath, updatedContent): the data
\* goes to the opened file; a failure part-way leaves the lines written so far
writeFileSync_wrangler ==
    /\ pc = "step6 writing"
    /\ UNCHANGED <<env, prodVars, templates, config, warnings, provVars>>
    /\ \E n \in 0..Len(patch.updatedContent) :
         /\ wrangler' = [wrangler EXCEPT !.text = SubSeq(patch.updatedContent, 1, n)]
         /\ IF n = Len(patch.updatedContent)
            THEN /\ trace' = Append(trace, "wrangler.jsonc written")
                 /\ patch' = [patch EXCEPT !.state = "written"]
                 /\ pc' = "step7"
                 /\ UNCHANGED <<stderr, thrown, exitStatus>>
            ELSE /\ trace' = Append(trace, "writeFileSync wrangler.jsonc failed")
                 /\ patch' = [patch EXCEPT !.state = "failed"]
                 /\ containerUpdateFailed("ENOSPC")

\* buildProject, lines 541-558; deploy() holds no call of it (lines 693-718
\* are commented out), so no position of the run enables it
buildProject ==
    /\ pc = "build"
    /\ UNCHANGED <<env, fileVars, config, patch, warnings, provVars>>
    /\ \E ok \in BOOLEAN :
        /\ trace' = trace \o <<"exec rm -rf dist && bun run build",
                               IF ok THEN "build ok" ELSE "build failed">>
        /\ IF ok THEN /\ pc' = "step6"
                      /\ UNCHANGED <<stderr, thrown, exitStatus>>
           ELSE Caught(DeploymentError(Msg("Failed to build project", <<>>),
                                       <<PlainError(Msg("Command failed", <<>>))>>))

\* wranglerDeploy whose catch block swallows the failure of the child process
wranglerDeployResult_swallow(ok) == <<>>

\* wranglerDeploy, lines 566-578: <<>> when it returns, <<error>> when it throws
wranglerDeployResult(ok) ==
    IF ok THEN <<>>
    ELSE <<DeploymentError(Msg("Failed to deploy with Wrangler", <<>>),
                           <<PlainError(Msg("Command failed", <<>>))>>)>>

\* deploy(), lines 725-726, with wranglerDeploy, lines 563-579
wranglerDeploy ==
    /\ pc = "step7"
    /\ UNCHANGED <<env, fileVars, config, patch, warnings, provVars>>
    /\ \E ok \in BOOLEAN :
        /\ trace' = trace \o <<"exec wrangler deploy",
                               IF ok THEN "wrangler deploy ok" ELSE "wrangler deploy failed">>
        /\ IF wranglerDeployResult(ok) = <<>>
           THEN /\ pc' = "step8"
                /\ UNCHANGED <<stderr, thrown, exitStatus>>
           ELSE Caught(wranglerDeployResult(ok)[1])

\* line 585 with the path of the configuration document in place of .prod.vars
prodVarsPath_wrangler == "wrangler.jsonc"

\* createProdVarsFile, line 585: the path the generated file is written to
prodVarsPath == ".prod.vars"

\* createProdVarsFile, lines 637-646: <<>> when it returns, <<error>> when it throws
createProdVarsFileResult(writeOk) ==
    IF writeOk THEN <<>>
    ELSE <<DeploymentError(Msg("Failed to create .prod.vars file", <<>>),
                           <<PlainError(Msg("EACCES", <<>>))>>)>>

\* updateSecrets whose catch block rethrows
updateSecretsCatch_rethrow(e) == e

\* updateSecrets, lines 676-680: the catch block lets no error out
updateSecretsCatch(e) == <<>>

\* the test of line 659 dropped: the file is generated on every run
prodVarsMissing_always(file) == TRUE

\* updateSecrets, line 659: !existsSync(prodVarsPath)
prodVarsMissing(file) == ~file.exists

\* deploy(), lines 729-730, with updateSecrets, lines 652-681, and
\* createProdVarsFile, lines 584-647
updateSecrets ==
    /\ pc = "step8"
    /\ UNCHANGED <<env, templates, config, patch, provVars>>
    /\ \E writeOk \in BOOLEAN, bulkOk \in BOOLEAN :
        LET create == prodVarsMissing(prodVars)
            created == IF create THEN createProdVarsFileResult(writeOk) ELSE <<>>
            inner == IF created # <<>> THEN created
                     ELSE IF ~bulkOk THEN <<PlainError(Msg("Command failed", <<>>))>>
                     ELSE <<>>
            escaped == IF inner = <<>> THEN <<>> ELSE updateSecretsCatch(inner)
        IN  /\ prodVars' = IF create /\ created = <<>> /\ prodVarsPath = ".prod.vars"
                           THEN [exists |-> TRUE, text |-> prodVarsContent(env)]
                           ELSE prodVars
            /\ wrangler' = IF create /\ created = <<>> /\ prodVarsPath = "wrangler.jsonc"
                           THEN [exists |-> TRUE, text |-> prodVarsContent(env)]
                           ELSE wrangler
            /\ trace' = trace
                   \o <<"existsSync .prod.vars">>
                   \o (IF create
                       THEN <<"writeFileSync .prod.vars",
                              IF created = <<>> THEN ".prod.vars written"
                              ELSE "writeFileSync .prod.vars failed">>
                       ELSE <<>>)
                   \o (IF created = <<>>
                       THEN <<"existsSync .prod.vars", "exec wrangler secret bulk .prod.vars",
                              IF bulkOk THEN "secret bulk ok" ELSE "secret bulk failed">>
                       ELSE <<>>)
            /\ warnings' = warnings
                   \o (IF created # <<>> THEN <<"Could not create .prod.vars file">> ELSE <<>>)
                   \o (IF inner # <<>> THEN <<"Could not update secrets">> ELSE <<>>)
            /\ IF escaped = <<>>
               THEN /\ pc' = "finish"
                    /\ UNCHANGED <<stderr, thrown, exitStatus>>
               ELSE Caught(escaped[1])

\* deploy(), lines 732-735: deploy() returns and the process ends normally
Finish ==
    /\ pc = "finish"
    /\ pc' = "done"
    /\ exitStatus' = Exited(0)
    /\ UNCHANGED <<env, fileVars, config, patch, thrown, trace, warnings, stderr, provVars>>

-----------------------------------------------------------------------------
(* The control plane and its answers *)

Resources == {"ns", "gw"}

CallKinds == {"ns.get", "ns.create", "gw.get", "gw.create", "tokens.verify", "tokens.create"}

\* a rejection of a remote call: whether it is an Error instance, its status
\* (0 when it has none) and its message (Undefined when it has none)
RemoteError(isError, status, message) ==
    [isError |-> isError, status |-> status, message |-> message]

ErrNotFound == RemoteError(TRUE, 404, Str(<<"n", "o", " ", "s", "u", "c", "h">>))

ErrServer == RemoteError(TRUE, 500, Str(<<"b", "u", "s", "y">>))

ErrNamed == RemoteError(TRUE, 400, Str(<<"x", " ">> \o S_notFound))

ErrBare == RemoteError(FALSE, 500, Undefined)

ErrConflict == RemoteError(TRUE, 409, Str(<<"e", "x", "i", "s", "t", "s">>))

\* answers other than the truthful one
Faults == {ErrServer, ErrNamed, ErrBare}

Found == [ok |-> TRUE, err |-> <<>>]

Rejected(e) == [ok |-> FALSE, err |-> <<e>>]

\* what a fetch of resource r can answer in the current control-plane state
GetAnswers(r) ==
    (IF r \in cp THEN {Found} ELSE {Rejected(ErrNotFound)})
    \cup {Rejected(e) : e \in Faults}

\* what a create of resource r can answer
CreateAnswers(r) ==
    IF r \in cp THEN {Rejected(ErrConflict)}
    ELSE {Found} \cup {Rejected(e) : e \in Faults}

\* the control plane answered according to its state
Truthful(answer) == answer.ok \/ answer.err[1] \in {ErrNotFound, ErrConflict}

-----------------------------------------------------------------------------
(* ensureDispatchNamespace, lines 152-192 *)

\* error?.message?.indexOf('not found'): <<>> when the chain yields undefined
OptIndexOf(message, needle) ==
    IF message.def THEN <<IndexOf(message.s, needle)>> ELSE <<>>

\* the namespace fetch without the return of line 169
nsFetchDecision_noReturn(answer) ==
    IF answer.ok THEN "create"
    ELSE IF answer.err[1].status # 404
            /\ OptIndexOf(answer.err[1].message, S_notFound) = <<-1>>
    THEN "rethrow"
    ELSE "create"

\* lines 163-176: what follows the namespace fetch
nsFetchDecision(answer) ==
    IF answer.ok THEN "return"
    ELSE IF answer.err[1].status # 404
            /\ OptIndexOf(answer.err[1].message, S_notFound) = <<-1>>
    THEN "rethrow"
    ELSE "create"

\* lines 186-191: error instanceof Error ? error : new Error(String(error))
asError(e) ==
    IF e.isError THEN e
    ELSE RemoteError(TRUE, 0, Str(<<"[", "o", "b", "j", "e", "c", "t", "]">>))

nsFailure(e) ==
    DeploymentError(Msg("Failed to ensure dispatch namespace", <<>>), <<asError(e)>>)

Bump(kind) == [calls EXCEPT ![kind][round] = @ + 1]

NoteFault(answer) == prov.faulted \/ ~Truthful(answer)

\* lines 153-176: the configuration lookup and the fetch
noDispatchConfig_negative(cfg) == Len(cfg.dispatch_namespaces) < 0

\* lines 153-154: !this.config.dispatch_namespaces?.[0]
noDispatchConfig(cfg) == Len(cfg.dispatch_namespaces) = 0

ensureDispatchNamespace_get ==
    /\ pc = "provisioning"
    /\ prov.ns.pc = "start"
    /\ UNCHANGED <<env, fileVars, config, runVars, round>>
    /\ IF noDispatchConfig(config)
       THEN /\ prov' = [prov EXCEPT !.ns.pc = "done", !.ns.outcome = "failed",
                           !.ns.error = <<DeploymentError(
                               Msg("No dispatch namespace configuration found in wrangler.jsonc", <<>>),
                               <<>>)>>]
            /\ UNCHANGED <<cp, calls>>
       ELSE \E answer \in GetAnswers("ns") :
            /\ calls' = Bump("ns.get")
            /\ UNCHANGED cp
            /\ prov' = [prov EXCEPT
                   !.faulted = NoteFault(answer),
                   !.ns.fetchErr = answer.err,
                   !.ns.pc = IF nsFetchDecision(answer) = "create" THEN "create" ELSE "done",
                   !.ns.outcome = CASE nsFetchDecision(answer) = "return" -> "exists"
                                    [] nsFetchDecision(answer) = "rethrow" -> "failed"
                                    [] OTHER -> "none",
                   !.ns.error = IF nsFetchDecision(answer) = "rethrow"
                                THEN <<nsFailure(answer.err[1])>> ELSE <<>>]

\* lines 178-191: the create call
ensureDispatchNamespace_create ==
    /\ pc = "provisioning"
    /\ prov.ns.pc = "create"
    /\ UNCHANGED <<env, fileVars, config, runVars, round>>
    /\ \E answer \in CreateAnswers("ns") :
        /\ calls' = Bump("ns.create")
        /\ cp' = IF answer.ok THEN cp \cup {"ns"} ELSE cp
        /\ prov' = [prov EXCEPT
               !.faulted = NoteFault(answer),
               !.ns.createErr = answer.err,
               !.ns.pc = "done",
               !.ns.outcome = IF answer.ok THEN "created" ELSE "failed",
               !.ns.error = IF answer.ok THEN <<>> ELSE <<nsFailure(answer.err[1])>>]

-----------------------------------------------------------------------------
(* ensureAIGateway, lines 197-259, with checkTokenPermissions, lines 264-295, *)
(* ensureAIGatewayToken, lines 301-377, and getAIGatewaySDK, lines 382-384    *)

VerifyOutcomes == {"verified", "not ok", "unsuccessful", "throws"}

IssueOutcomes == {"issued", "not ok", "no value", "throws"}

IssuedToken == Str(<<"n", "e", "w">>)

\* Date.now() at the credential request, in seconds
Clock == {0, 86399}

YearSeconds == 365 * 24 * 60 * 60

\* lines 324-346: the body of POST /user/tokens; expires_on is kept as the
\* instant it denotes, in seconds
tokenRequestBody(accountId, now) ==
    [policies |->
        <<[effect |-> "allow",
           resources |-> [account |-> accountId, scope |-> "*"],
           permission_groups |->
               <<"AI Gateway Read", "AI Gateway Edit", "AI Gateway Run",
                 "Workers AI Read", "Workers AI Edit">>]>>,
     condition |-> [request_ip |-> [in |-> <<>>, not_in |-> <<>>]],
     expires_on |-> now + YearSeconds]

\* lines 254-258 with a catch block that throws the error on
gwCatch_rethrow(e) == e

\* lines 254-258: the catch block of ensureAIGateway only warns
gwCatch(e) == <<>>

\* line 305 with the comparison against the placeholder inverted
tokenUsable_inverted(token) == Truthy(token) /\ token.s = PlaceholderToken

\* line 305: the configured token is reused
tokenUsable(token) == Truthy(token) /\ token.s # PlaceholderToken

\* lines 222-229 without the return of line 222 and the warn-and-return of
\* lines 224-228
gwFetchDecision_alwaysCreate(answer) == "create"

\* lines 222-229: what follows the gateway fetch
gwFetchDecision(answer) ==
    IF answer.ok THEN "return"
    ELSE IF answer.err[1].status # 404
            /\ ~(answer.err[1].message.def /\ Includes(answer.err[1].message.s, S_notFound))
    THEN "warn"
    ELSE "create"

\* line 232 with the limit off by one
nameTooLong_offByOne(name) == Len(name) > GatewayNameLimit + 1

\* line 232
nameTooLong(name) == Len(name) > GatewayNameLimit

\* line 249 with authentication switched on whatever the token
gwAuthentication_always(token) == TRUE

\* line 249: authentication: !!aiGatewayToken
gwAuthentication(token) == Truthy(token)

\* lines 198-209: the optional-input check and checkTokenPermissions
gatewayNotProvided_undefinedOnly(e) == ~e["CLOUDFLARE_AI_GATEWAY"].def

\* line 198: !this.env.CLOUDFLARE_AI_GATEWAY
gatewayNotProvided(e) == ~Truthy(e["CLOUDFLARE_AI_GATEWAY"])

ensureAIGateway_verify ==
    /\ pc = "provisioning"
    /\ prov.gw.pc = "start"
    /\ UNCHANGED <<env, fileVars, config, runVars, round, cp>>
    /\ IF gatewayNotProvided(env)
       THEN /\ prov' = [prov EXCEPT !.gw.pc = "done", !.gw.outcome = "skipped"]
            /\ UNCHANGED calls
       ELSE \E v \in VerifyOutcomes :
            /\ calls' = Bump("tokens.verify")
            /\ prov' = [prov EXCEPT
                   !.gw.pc = "token",
                   !.gw.warns = IF v = "verified" THEN @
                                ELSE Append(@, "Could not verify API token permissions")]

\* line 210: ensureAIGatewayToken
ensureAIGateway_token ==
    /\ pc = "provisioning"
    /\ prov.gw.pc = "token"
    /\ UNCHANGED <<env, fileVars, config, runVars, round, cp>>
    /\ IF tokenUsable(env["CLOUDFLARE_AI_GATEWAY_TOKEN"])
       THEN /\ prov' = [prov EXCEPT !.gw.pc = "get",
                           !.gw.sdk = env["CLOUDFLARE_AI_GATEWAY_TOKEN"],
                           !.gw.token = env["CLOUDFLARE_AI_GATEWAY_TOKEN"]]
            /\ UNCHANGED calls
       ELSE \E i \in IssueOutcomes, now \in Clock :
            LET sent == [prov EXCEPT
                            !.gw.pc = "get", !.gw.issue = i,
                            !.gw.tokenRequest =
                                <<[at |-> now,
                                   body |-> tokenRequestBody(env["CLOUDFLARE_ACCOUNT_ID"].s, now)]>>]
            IN  /\ calls' = Bump("tokens.create")
                /\ prov' = IF i = "issued"
                           THEN [sent EXCEPT !.gw.sdk = IssuedToken,
                                             !.gw.token = IssuedToken]
                           ELSE [sent EXCEPT
                                    !.gw.warns = Append(@, "Could not create AI Gateway token")]

\* lines 213-235: the fetch through getAIGatewaySDK() and the length check
ensureAIGateway_get ==
    /\ pc = "provisioning"
    /\ prov.gw.pc = "get"
    /\ UNCHANGED <<env, fileVars, config, runVars, round, cp>>
    /\ calls' = Bump("gw.get")
    /\ \E answer \in GetAnswers("gw") :
        LET d == gwFetchDecision(answer)
            base == [prov EXCEPT !.faulted = NoteFault(answer),
                                 !.gw.fetchErr = answer.err]
        IN  prov' =
              CASE d = "return" ->
                     [base EXCEPT !.gw.pc = "done", !.gw.outcome = "exists"]
                [] d = "warn" ->
                     [base EXCEPT !.gw.pc = "done", !.gw.outcome = "warned",
                                  !.gw.warns = Append(@, "Could not check AI Gateway")]
                [] d = "create" /\ nameTooLong(env["CLOUDFLARE_AI_GATEWAY"].s) ->
                     [base EXCEPT !.gw.pc = "done", !.gw.outcome = "skipped",
                                  !.gw.warns = Append(@, "AI Gateway name too long")]
                [] OTHER ->
                     [base EXCEPT !.gw.pc = "create"]

\* lines 237-258: the create call and the catch-all
ensureAIGateway_create ==
    /\ pc = "provisioning"
    /\ prov.gw.pc = "create"
    /\ UNCHANGED <<env, fileVars, config, runVars, round>>
    /\ calls' = Bump("gw.create")
    /\ \E answer \in CreateAnswers("gw") :
        /\ cp' = IF answer.ok THEN cp \cup {"gw"} ELSE cp
        /\ prov' = [prov EXCEPT
               !.faulted = NoteFault(answer),
               !.gw.pc = "done",
               !.gw.createArgs = <<[id |-> env["CLOUDFLARE_AI_GATEWAY"].s,
                                    authentication |-> gwAuthentication(prov.gw.token)]>>,
               !.gw.createErr = answer.err,
               !.gw.error = IF answer.ok THEN <<>> ELSE gwCatch(answer.err),
               !.gw.outcome = IF answer.ok THEN "created" ELSE "warned",
               !.gw.warns = IF answer.ok THEN @
                            ELSE Append(@, "Could not create AI Gateway")]

-----------------------------------------------------------------------------
(* deployTemplates, lines 389-464 *)

NoTemplates == [dir |-> FALSE, git |-> FALSE, script |-> FALSE]

\* line 423 with the first bucket taken whatever its binding
findTemplatesBucket_first(cfg) ==
    IF cfg.r2_buckets = <<>> THEN <<>> ELSE <<cfg.r2_buckets[1]>>

\* lines 423-425: r2_buckets?.find(bucket => bucket.binding === 'TEMPLATES_BUCKET')
findTemplatesBucket(cfg) ==
    LET found == SelectSeq(cfg.r2_buckets, LAMBDA b : b.binding = "TEMPLATES_BUCKET")
    IN  IF found = <<>> THEN <<>> ELSE <<found[1]>>

\* lines 459-463: the catch block of deployTemplates only warns
templatesCatch(e) == <<>>

\* lines 439-458: chmod and the deploy script
templatesScript(r, chmodOk, scriptOk) ==
    IF ~chmodOk
    THEN [r EXCEPT !.effects = @ \o <<"exec chmod deploy_templates.sh", "chmod failed">>,
                   !.err = <<PlainError(Msg("Command failed", <<>>))>>]
    ELSE IF ~scriptOk
    THEN [r EXCEPT !.effects = @ \o <<"exec chmod deploy_templates.sh",
                                      "exec ./deploy_templates.sh", "deploy script failed">>,
                   !.err = <<PlainError(Msg("Command failed", <<>>))>>]
    ELSE [r EXCEPT !.effects = @ \o <<"exec chmod deploy_templates.sh",
                                      "exec ./deploy_templates.sh", "deploy script ok">>]

\* lines 422-436: the bucket lookup and the test for the deploy script
templatesDeploy(r, cfg, chmodOk, scriptOk) ==
    IF findTemplatesBucket(cfg) = <<>>
    THEN [r EXCEPT !.err = <<PlainError(Msg(
             "TEMPLATES_BUCKET not found in wrangler.jsonc r2_buckets configuration", <<>>))>>]
    ELSE IF ~r.fs.script
    THEN [r EXCEPT !.effects = Append(@, "existsSync deploy_templates.sh"),
                   !.warns = Append(@, "deploy_templates.sh not found")]
    ELSE templatesScript([r EXCEPT !.effects = Append(@, "existsSync deploy_templates.sh")],
                         chmodOk, scriptOk)

\* lines 401-420: clone, or pull when the repository is already there
templatesFetch(r, cfg, cloneOk, pullOk, hasScript, chmodOk, scriptOk) ==
    IF ~r.fs.git
    THEN IF ~cloneOk
         THEN [r EXCEPT !.effects = @ \o <<"exec git clone", "git clone failed">>,
                        !.err = <<PlainError(Msg("Command failed", <<>>))>>]
         ELSE templatesDeploy(
                  [r EXCEPT !.effects = @ \o <<"exec git clone", "git clone ok">>,
                            !.fs = [dir |-> TRUE, git |-> TRUE, script |-> hasScript]],
                  cfg, chmodOk, scriptOk)
    ELSE IF ~pullOk
         THEN templatesDeploy(
                  [r EXCEPT !.effects = @ \o <<"exec git pull", "git pull failed">>,
                            !.warns = Append(@, "Could not pull latest changes")],
                  cfg, chmodOk, scriptOk)
         ELSE templatesDeploy(
                  [r EXCEPT !.effects = @ \o <<"exec git pull", "git pull ok">>,
                            !.fs.script = hasScript],
                  cfg, chmodOk, scriptOk)

\* lines 395-458: the try block, from the state fs of templates/
templatesTry(fs, cfg, mkdirOk, cloneOk, pullOk, hasScript, chmodOk, scriptOk) ==
    LET r0 == [fs |-> fs, effects |-> <<>>, warns |-> <<>>, err |-> <<>>]
    IN  IF ~fs.dir
        THEN IF ~mkdirOk
             THEN [r0 EXCEPT !.effects = <<"mkdir templates", "mkdir failed">>,
                             !.err = <<PlainError(Msg("EACCES", <<>>))>>]
             ELSE templatesFetch([r0 EXCEPT !.effects = <<"mkdir templates">>,
                                            !.fs.dir = TRUE],
                                 cfg, cloneOk, pullOk, hasScript, chmodOk, scriptOk)
        ELSE templatesFetch(r0, cfg, cloneOk, pullOk, hasScript, chmodOk, scriptOk)

\* deployTemplates as a whole: it has no await, so it runs in one step
deployTemplates ==
    /\ pc = "templates"
    /\ UNCHANGED <<env, wrangler, prodVars, config, patch, stderr, exitStatus, provVars>>
    /\ \E mkdirOk \in BOOLEAN, cloneOk \in BOOLEAN, pullOk \in BOOLEAN,
          hasScript \in BOOLEAN, chmodOk \in BOOLEAN, scriptOk \in BOOLEAN :
         LET r == templatesTry(templates, config, mkdirOk, cloneOk, pullOk,
                               hasScript, chmodOk, scriptOk)
         IN  /\ templates' = r.fs
             /\ trace' = trace \o r.effects
             /\ warnings' = warnings \o r.warns
                    \o (IF r.err # <<>> THEN <<"Templates deployment failed">> ELSE <<>>)
             /\ thrown' = IF r.err = <<>> THEN <<>> ELSE templatesCatch(r.err)
             /\ pc' = "templates done"

-----------------------------------------------------------------------------
(* Consecutive runs of the provisioning operations *)

Rounds == 2

NsIdle == [pc |-> "start", outcome |-> "none", error |-> <<>>,
           fetchErr |-> <<>>, createErr |-> <<>>]

GwIdle == [pc |-> "start", outcome |-> "none", error |-> <<>>,
           issue |-> "none", tokenRequest |-> <<>>,
           token |-> Undefined, sdk |-> Undefined,
           fetchErr |-> <<>>, createArgs |-> <<>>, createErr |-> <<>>, warns |-> <<>>]

\* a later run of the script: a fresh manager against the control plane as
\* the earlier run left it
NextRound ==
    /\ pc = "provisioning"
    /\ prov.ns.pc = "done"
    /\ prov.gw.pc = "done"
    /\ round < Rounds
    /\ round' = round + 1
    /\ prov' = [prov EXCEPT !.ns = NsIdle, !.gw = GwIdle, !.start = cp]
    /\ UNCHANGED <<env, fileVars, config, runVars, cp, calls>>

-----------------------------------------------------------------------------
(* Inputs *)

ShortName == <<"a", "c", "m", "e", "-", "g", "w">>

LimitName == [i \in 1..GatewayNameLimit |-> "g"]

LongName == [i \in 1..(GatewayNameLimit + 1) |-> "g"]

RealToken == <<"t", "k">>

YourToken == S_your \o <<"t", "k">>

EnvOf(apiToken, accountId, repo, gateway, gatewayToken, maxInstances, key) ==
    [n \in EnvNames |->
        CASE n = "CLOUDFLARE_API_TOKEN" -> apiToken
          [] n = "CLOUDFLARE_ACCOUNT_ID" -> accountId
          [] n = "TEMPLATES_REPOSITORY" -> repo
          [] n = "CLOUDFLARE_AI_GATEWAY" -> gateway
          [] n = "CLOUDFLARE_AI_GATEWAY_TOKEN" -> gatewayToken
          [] n = "MAX_SANDBOX_INSTANCES" -> maxInstances
          [] n = "ANTHROPIC_API_KEY" -> key
          [] OTHER -> Undefined]

RequiredValues == {Undefined, Str(<<>>), Str(<<"v">>)}

MaxInstancesValues ==
    {Undefined, Str(<<"a", "b", "c">>), Str(<<"0">>), Str(<<"-", "5">>),
     Str(<<"2", "5">>), Str(<<" ", "7", "p", "x">>)}

TokenValues == {Undefined, Str(PlaceholderToken), Str(YourToken), Str(RealToken)}

FullDoc ==
    <<Comment(1), NameLine, DispatchLine, BucketLine, Comment(2),
      ContainersLine(<<Container(SandboxClass, Field(10), 3)>>)>>

ReorderedDoc ==
    <<NameLine, DispatchLine, BucketLine,
      ContainersLine(<<Container("OtherService", Field(5), 4),
                       Container(SandboxClass, Field(10), 3)>>), Comment(2)>>

NoContainersDoc == <<Comment(1), NameLine, DispatchLine, BucketLine>>

NoSandboxDoc ==
    <<NameLine, DispatchLine, ContainersLine(<<Container("OtherService", Field(5), 4)>>)>>

NoMaxDoc ==
    <<NameLine, DispatchLine, Comment(1),
      ContainersLine(<<Container(SandboxClass, NoField, 3)>>)>>

NoDispatchDoc ==
    <<NameLine, BucketLine, ContainersLine(<<Container(SandboxClass, Field(10), 3)>>)>>

EmptyDoc == <<Comment(1)>>

MalformedDoc == <<NameLine, DispatchLine, Garbage, BucketLine>>

Docs == {FullDoc, ReorderedDoc, NoContainersDoc, NoSandboxDoc, NoMaxDoc,
         NoDispatchDoc, EmptyDoc, MalformedDoc}

NoCalls == [k \in CallKinds |-> [r \in 1..Rounds |-> 0]]

\* start: the control plane as the current run found it
ProvIdle == [ns |-> NsIdle, gw |-> GwIdle, faulted |-> FALSE, start |-> {}]

-----------------------------------------------------------------------------
(* Spec: one run of the script *)

Init ==
    /\ env \in {EnvOf(a, b, c, g, t, m, k) :
                   a \in RequiredValues, b \in RequiredValues, c \in RequiredValues,
                   g \in {Undefined, Str(ShortName)},
                   t \in {Undefined, Str(PlaceholderToken), Str(RealToken)},
                   m \in MaxInstancesValues,
                   k \in {Undefined, Str(<<>>), Str(S_your \o <<"k", "e", "y">>)}}
    /\ wrangler \in {[exists |-> FALSE, text |-> <<>>]}
                    \cup {[exists |-> TRUE, text |-> d] : d \in Docs}
    /\ prodVars \in {[exists |-> FALSE, text |-> <<>>],
                     [exists |-> TRUE, text |-> <<HeaderLine("kept by hand")>>]}
    /\ templates = NoTemplates
    /\ config = NoTree
    /\ patch = NoPatch
    /\ pc = "start"
    /\ exitStatus = Running
    /\ thrown = <<>>
    /\ trace = <<>>
    /\ warnings = <<>>
    /\ stderr = <<>>
    /\ cp = {}
    /\ calls = NoCalls
    /\ prov = ProvIdle
    /\ round = 1

Next ==
    \/ Construct
    \/ updateContainerConfiguration
    \/ writeFileSync_wrangler
    \/ wranglerDeploy
    \/ updateSecrets
    \/ Finish

Spec == Init /\ [][Next]_vars

\* the run is one sequential, run-to-completion program: as long as each
\* external invocation returns, the step it is at is eventually taken
SpecFair == Init /\ [][Next]_vars /\ WF_vars(Next)

\* lines 762-768 run again: the script invoked once more after a completed
\* run, a fresh manager with the same environment and the files as the
\* earlier run left them
Rerun ==
    /\ pc = "done"
    /\ round < Rounds
    /\ round' = round + 1
    /\ pc' = "start"
    /\ config' = NoTree
    /\ patch' = NoPatch
    /\ exitStatus' = Running
    /\ thrown' = <<>>
    /\ trace' = <<>>
    /\ warnings' = <<>>
    /\ stderr' = <<>>
    /\ UNCHANGED <<env, fileVars, cp, calls, prov>>

NextRerun == Next \/ Rerun

SpecRerun == Init /\ [][NextRerun]_vars

-----------------------------------------------------------------------------
(* setup-database.ts: setupDatabase(), lines 43-80, called directly (line 84).
   runMigrations, initializeSystemDefaults and getDatabase are imported from
   ../drizzle/migrate: each of them returns or throws *)

DbFaults == {PlainError(Msg("D1_ERROR", <<>>)),
             PlainError(Msg("no such table", <<>>)),
             [name |-> "TypeError", message |-> Msg("not a function", <<>>), cause |-> <<>>]}

DbOutcomes == {<<>>} \cup {<<e>> : e \in DbFaults}

\* the catch block without process.exit(1): the function returns and the
\* process ends normally
setupDatabaseCatch_noExit(e) ==
    /\ thrown' = <<e>>
    /\ stderr' = <<Msg("Database setup failed:", <<>>), e.message>>
    /\ exitStatus' = Exited(0)
    /\ pc' = "exited"

\* lines 76-79: console.error('Database setup failed:', error); process.exit(1)
setupDatabaseCatch(e) ==
    /\ thrown' = <<e>>
    /\ stderr' = <<Msg("Database setup failed:", <<>>), e.message>>
    /\ exitStatus' = Exited(1)
    /\ pc' = "exited"

\* lines 55-57: await runMigrations(env)
runMigrations ==
    /\ pc = "db start"
    /\ UNCHANGED <<env, fileVars, config, patch, warnings, provVars>>
    /\ \E r \in DbOutcomes :
        IF r = <<>>
        THEN /\ trace' = trace \o <<"runMigrations", "Migrations completed successfully">>
             /\ pc' = "db migrated"
             /\ UNCHANGED <<stderr, thrown, exitStatus>>
        ELSE /\ trace' = Append(trace, "runMigrations")
             /\ setupDatabaseCatch(r[1])

\* lines 60-62: await initializeSystemDefaults(env)
initializeSystemDefaults ==
    /\ pc = "db migrated"
    /\ UNCHANGED <<env, fileVars, config, patch, warnings, provVars>>
    /\ \E r \in DbOutcomes :
        IF r = <<>>
        THEN /\ trace' = trace \o <<"initializeSystemDefaults", "System defaults initialized">>
             /\ pc' = "db defaults"
             /\ UNCHANGED <<stderr, thrown, exitStatus>>
        ELSE /\ trace' = Append(trace, "initializeSystemDefaults")
             /\ setupDatabaseCatch(r[1])

\* lines 65-74: getDatabase(env), the closing messages, and the return
getDatabase ==
    /\ pc = "db defaults"
    /\ UNCHANGED <<env, fileVars, config, patch, warnings, provVars>>
    /\ \E r \in DbOutcomes :
        IF r = <<>>
        THEN /\ trace' = trace \o <<"getDatabase", "Database connection verified",
                                    "Database setup completed successfully">>
             /\ pc' = "done"
             /\ exitStatus' = Exited(0)
             /\ UNCHANGED <<stderr, thrown>>
        ELSE /\ trace' = Append(trace, "getDatabase")
             /\ setupDatabaseCatch(r[1])

\* lines 44-51: the start message and the environment handed to the steps
InitDb ==
    /\ env \in {EnvOf(a, b, Undefined, Undefined, Undefined, Undefined, Undefined) :
                   a \in RequiredValues, b \in RequiredValues}
    /\ wrangler = [exists |-> FALSE, text |-> <<>>]
    /\ prodVars = [exists |-> FALSE, text |-> <<>>]
    /\ templates = NoTemplates
    /\ config = NoTree
    /\ patch = NoPatch
    /\ pc = "db start"
    /\ exitStatus = Running
    /\ thrown = <<>>
    /\ trace = <<>>
    /\ warnings = <<>>
    /\ stderr = <<>>
    /\ cp = {}
    /\ calls = NoCalls
    /\ prov = ProvIdle
    /\ round = 1

NextDb ==
    \/ runMigrations
    \/ initializeSystemDefaults
    \/ getDatabase

SpecDb == InitDb /\ [][NextDb]_vars

-----------------------------------------------------------------------------
(* SpecProv: the provisioning operations of a constructed manager *)

InitProv ==
    /\ env \in {EnvOf(Str(<<"v">>), Str(<<"v">>), Str(<<"v">>), g, t, Undefined, Undefined) :
                   g \in {Undefined, Str(<<>>), Str(ShortName), Str(LimitName), Str(LongName)},
                   t \in TokenValues}
    /\ wrangler \in {[exists |-> TRUE, text |-> d] : d \in {FullDoc, NoDispatchDoc}}
    /\ prodVars = [exists |-> FALSE, text |-> <<>>]
    /\ templates = NoTemplates
    /\ config = parse(wrangler.text)
    /\ patch = NoPatch
    /\ pc = "provisioning"
    /\ exitStatus = Running
    /\ thrown = <<>>
    /\ trace = <<>>
    /\ warnings = <<>>
    /\ stderr = <<>>
    \* the control plane holds no gateway whose name exceeds its own limit
    /\ cp \in {c \in SUBSET Resources :
                  "gw" \in c => Len(env["CLOUDFLARE_AI_GATEWAY"].s) <= GatewayNameLimit}
    /\ calls = NoCalls
    /\ prov = [ProvIdle EXCEPT !.start = cp]
    /\ round = 1

NextProv ==
    \/ ensureDispatchNamespace_get
    \/ ensureDispatchNamespace_create
    \/ ensureAIGateway_verify
    \/ ensureAIGateway_token
    \/ ensureAIGateway_get
    \/ ensureAIGateway_create
    \/ NextRound

SpecProv == InitProv /\ [][NextProv]_vars

-----------------------------------------------------------------------------
(* SpecTemplates: deployTemplates of a constructed manager, run repeatedly *)

OtherBucketDoc ==
    <<NameLine, DispatchLine, [k |-> "r2", binding |-> "ASSETS", bucket_name |-> "assets"]>>

TemplatesStates ==
    {t \in [dir : BOOLEAN, git : BOOLEAN, script : BOOLEAN] :
        (t.git \/ t.script) => t.dir}

InitTemplates ==
    /\ env = EnvOf(Str(<<"v">>), Str(<<"v">>), Str(<<"v">>), Undefined, Undefined,
                   Undefined, Undefined)
    /\ wrangler \in {[exists |-> TRUE, text |-> d] :
                        d \in {FullDoc, ReorderedDoc, NoSandboxDoc, OtherBucketDoc}}
    /\ prodVars = [exists |-> FALSE, text |-> <<>>]
    /\ templates \in TemplatesStates
    /\ config = parse(wrangler.text)
    /\ patch = NoPatch
    /\ pc = "templates"
    /\ exitStatus = Running
    /\ thrown = <<>>
    /\ trace = <<>>
    /\ warnings = <<>>
    /\ stderr = <<>>
    /\ cp = {}
    /\ calls = NoCalls
    /\ prov = ProvIdle
    /\ round = 1

\* a later run of deployTemplates, in a fresh process, with templates/ as the
\* earlier run left it
NextTemplatesRun ==
    /\ pc = "templates done"
    /\ round < Rounds
    /\ round' = round + 1
    /\ pc' = "templates"
    /\ trace' = <<>>
    /\ warnings' = <<>>
    /\ thrown' = <<>>
    /\ UNCHANGED <<env, fileVars, config, patch, stderr, exitStatus, cp, calls, prov>>

NextTemplates ==
    \/ deployTemplates
    \/ NextTemplatesRun

SpecTemplates == InitTemplates /\ [][NextTemplates]_vars

-----------------------------------------------------------------------------
(* Properties *)

Has(x) == \E i \in 1..Len(trace) : trace[i] = x

Precedes(x, y) ==
    \A i \in 1..Len(trace) : trace[i] = y => \E j \in 1..(i - 1) : trace[j] = x

RequiredSet == {"CLOUDFLARE_API_TOKEN", "CLOUDFLARE_ACCOUNT_ID", "TEMPLATES_REPOSITORY"}

AbsentOrEmpty(v) == ~v.def \/ v.s = <<>>

Terminated == pc \in {"done", "exited"}

\* C1: the remote deploy step starts only after the build step has run and
\* succeeded.
C1_BuildPrecedesDeploy == Precedes("build ok", "exec wrangler deploy")

\* C2: secret synchronization starts only after wrangler deploy has completed
\* successfully; after a failed wrangler deploy no part of updateSecrets is
\* executed and the process has exited with status 1.
C2_SecretsOnlyAfterDeploy ==
    /\ Precedes("wrangler deploy ok", "existsSync .prod.vars")
    /\ Precedes("wrangler deploy ok", "writeFileSync .prod.vars")
    /\ Precedes("wrangler deploy ok", "exec wrangler secret bulk .prod.vars")
    /\ Has("wrangler deploy failed") =>
          /\ ~Has("existsSync .prod.vars")
          /\ ~Has("exec wrangler secret bulk .prod.vars")
          /\ exitStatus = Exited(1)

C2_Witness ==
    /\ Has("wrangler deploy failed")
    /\ exitStatus = Exited(1)
    /\ pc = "exited"

\* C3: once the remote deploy has succeeded, no outcome of updateSecrets makes
\* the run fail: no error reaches the catch block of deploy() and the run ends
\* with status 0.
C3_SecretsFailureTolerated ==
    Has("wrangler deploy ok") =>
        /\ thrown = <<>>
        /\ pc # "exited"
        /\ exitStatus # Exited(1)
        /\ pc = "done" => exitStatus = Exited(0)

C3_Witness ==
    /\ pc = "done"
    /\ exitStatus = Exited(0)
    /\ Has("secret bulk failed")

\* a fatal failure happened at some stage of the run: validation, configuration
\* load, configuration patch or the remote deploy
FatalOccurred ==
    \/ pc # "start" /\ \E v \in RequiredSet : AbsentOrEmpty(env[v])
    \/ Has("existsSync wrangler.jsonc") /\ ~wrangler.exists
    \/ Has("readFileSync wrangler.jsonc failed")
    \/ /\ Has("readFileSync wrangler.jsonc")
       /\ patch.state = "none"
       /\ \A l \in 1..Len(wrangler.text) : wrangler.text[l].k = "comment"
    \/ Has("writeFileSync wrangler.jsonc failed")
    \/ Has("wrangler deploy failed")

\* C4: a run ends with non-zero status if and only if a fatal failure happened;
\* recoverable failures alone leave the status at 0.
C4_ExitIffFatal ==
    /\ Terminated => exitStatus \in {Exited(0), Exited(1)}
    /\ Terminated => (exitStatus = Exited(1) <=> FatalOccurred)
    /\ ~Terminated => exitStatus = Running /\ ~FatalOccurred

C4_Witness ==
    /\ pc = "exited"
    /\ exitStatus = Exited(1)
    /\ Has("writeFileSync wrangler.jsonc failed")

\* C5: when a required input is absent or empty, the run fails before any file
\* access, any child process and any remote call.
C5_ValidationFirst ==
    (\E v \in RequiredSet : AbsentOrEmpty(env[v])) =>
        /\ trace = <<>>
        /\ calls = NoCalls
        /\ config = NoTree
        /\ pc \in {"start", "exited"}
        /\ pc = "exited" => exitStatus = Exited(1)

C5_Witness ==
    /\ pc = "exited"
    /\ exitStatus = Exited(1)
    /\ trace = <<>>
    /\ env["TEMPLATES_REPOSITORY"] = Str(<<>>)
    /\ Truthy(env["CLOUDFLARE_API_TOKEN"])
    /\ Truthy(env["CLOUDFLARE_ACCOUNT_ID"])

IsValidationError(t) ==
    t # <<>> /\ t[1].message.text = "Missing required environment variables"

\* C6: validation succeeds only if every required name has a non-empty value;
\* otherwise its error names exactly the required names that are absent or
\* empty, each once.
C6_ValidationListsAllMissing ==
    pc # "start" =>
        LET missing == {v \in RequiredSet : AbsentOrEmpty(env[v])}
        IN  /\ missing = {} => ~IsValidationError(thrown)
            /\ missing # {} =>
                  /\ IsValidationError(thrown)
                  /\ {thrown[1].message.names[i] :
                         i \in 1..Len(thrown[1].message.names)} = missing
                  /\ Len(thrown[1].message.names) = Cardinality(missing)

C6_Witness ==
    /\ IsValidationError(thrown)
    /\ Len(thrown[1].message.names) = 2
    /\ ~env["CLOUDFLARE_ACCOUNT_ID"].def
    /\ env["TEMPLATES_REPOSITORY"] = Str(<<>>)

RECURSIVE SumTo(_, _)
SumTo(f, n) == IF n = 0 THEN 0 ELSE f[n] + SumTo(f, n - 1)

Creates(r) == calls[IF r = "ns" THEN "ns.create" ELSE "gw.create"]

AtMostOneCreate ==
    \A r \in Resources :
        /\ SumTo(Creates(r), Rounds) <= 1
        /\ \A later \in 2..Rounds : Creates(r)[later] = 0

NotFoundSignal(e) ==
    e.status = 404 \/ (e.message.def /\ Includes(e.message.s, S_notFound))

\* C8: the namespace create call is issued only after a fetch that failed with
\* a positive not-found signal.
C8_CreateOnlyOnNotFound ==
    (prov.ns.pc = "create" \/ prov.ns.outcome = "created" \/ prov.ns.createErr # <<>>) =>
        /\ prov.ns.fetchErr # <<>>
        /\ NotFoundSignal(prov.ns.fetchErr[1])

\* C9: a namespace fetch failure other than not-found, and a namespace create
\* failure, end ensureDispatchNamespace with a DeploymentError whose cause is
\* the original error.
C9_FailureIsFatalWithCause ==
    prov.ns.pc = "done" =>
        /\ (prov.ns.fetchErr # <<>> /\ ~NotFoundSignal(prov.ns.fetchErr[1])) =>
              /\ prov.ns.error # <<>>
              /\ prov.ns.error[1].name = "DeploymentError"
              /\ prov.ns.error[1].cause = prov.ns.fetchErr
        /\ prov.ns.createErr # <<>> =>
              /\ prov.ns.error # <<>>
              /\ prov.ns.error[1].name = "DeploymentError"
              /\ prov.ns.error[1].cause = prov.ns.createErr

GatewayConfigured == env["CLOUDFLARE_AI_GATEWAY"].def /\ env["CLOUDFLARE_AI_GATEWAY"].s # <<>>

TokenPresent ==
    /\ env["CLOUDFLARE_AI_GATEWAY_TOKEN"].def
    /\ env["CLOUDFLARE_AI_GATEWAY_TOKEN"].s # <<>>
    /\ env["CLOUDFLARE_AI_GATEWAY_TOKEN"].s # PlaceholderToken

\* the gateway step fetched the gateway and the control plane answered that
\* it does not exist
GatewayWasAbsent == prov.gw.fetchErr = <<ErrNotFound>>

ReusedTokenAuthenticatedCreate ==
    /\ calls["tokens.create"][round] = 0
    /\ calls["gw.create"][round] = 1
    /\ Len(prov.gw.createArgs) = 1
    /\ prov.gw.createArgs[1].authentication
    /\ prov.gw.createArgs[1].id = env["CLOUDFLARE_AI_GATEWAY"].s
    /\ prov.gw.error = <<>>

\* C10 as stated: with a gateway name configured, the gateway reported absent
\* by the control plane and a token present that is not the placeholder, the
\* gateway step issues no credential request, issues the create call with
\* authentication enabled and raises no error.
C10_ReuseTokenAndCreate ==
    (prov.gw.pc = "done" /\ GatewayConfigured /\ TokenPresent /\ GatewayWasAbsent)
        => ReusedTokenAuthenticatedCreate

\* C10 as amended: the same, when moreover the name has at most 64 characters.
C10_ReuseTokenAndCreateWithinLimit ==
    (/\ prov.gw.pc = "done" /\ GatewayConfigured /\ TokenPresent /\ GatewayWasAbsent
     /\ Len(env["CLOUDFLARE_AI_GATEWAY"].s) <= 64)
        => ReusedTokenAuthenticatedCreate

C10_Witness ==
    /\ prov.gw.pc = "done"
    /\ prov.gw.outcome = "created"
    /\ env["CLOUDFLARE_AI_GATEWAY"].s = ShortName
    /\ env["CLOUDFLARE_AI_GATEWAY_TOKEN"].s = RealToken
    /\ Len(prov.gw.createArgs) = 1
    /\ prov.gw.createArgs[1].authentication
    /\ calls["tokens.create"][round] = 0

\* the credential request of this run of the gateway step failed
IssuanceFailed == prov.gw.issue \in {"not ok", "no value", "throws"}

UnauthenticatedCreate ==
    /\ calls["gw.create"][round] = 1
    /\ Len(prov.gw.createArgs) = 1
    /\ ~prov.gw.createArgs[1].authentication
    /\ prov.gw.createArgs[1].id = env["CLOUDFLARE_AI_GATEWAY"].s

\* ensureAIGatewayToken returned no token and nothing was raised
NoTokenNoError ==
    /\ prov.gw.pc # "token"
    /\ prov.gw.token = Undefined
    /\ prov.gw.sdk = Undefined
    /\ prov.gw.error = <<>>
    /\ "Could not create AI Gateway token" \in {prov.gw.warns[i] : i \in DOMAIN prov.gw.warns}

OverLimit == GatewayConfigured /\ Len(env["CLOUDFLARE_AI_GATEWAY"].s) > 64

\* C12: for a gateway name longer than 64 characters no create call is ever
\* issued for the gateway, the gateway step raises no error, and the step
\* ends without the gateway, having logged a warning.
C12_OverLimitNameSkipped ==
    OverLimit =>
        /\ \A r \in 1..Rounds : calls["gw.create"][r] = 0
        /\ prov.gw.createArgs = <<>>
        /\ prov.gw.pc # "create"
        /\ prov.gw.error = <<>>
        /\ "gw" \notin cp
        /\ prov.gw.pc = "done" =>
              /\ prov.gw.outcome \in {"skipped", "warned"}
              /\ prov.gw.warns # <<>>
              /\ prov.gw.warns[Len(prov.gw.warns)] \in
                     {"AI Gateway name too long", "Could not check AI Gateway"}
              /\ GatewayWasAbsent =>
                     /\ prov.gw.outcome = "skipped"
                     /\ prov.gw.warns[Len(prov.gw.warns)] = "AI Gateway name too long"

C12_Witness ==
    /\ OverLimit
    /\ prov.gw.pc = "done"
    /\ GatewayWasAbsent
    /\ prov.gw.outcome = "skipped"
    /\ prov.gw.warns[Len(prov.gw.warns)] = "AI Gateway name too long"
    /\ calls["gw.get"][round] = 1

-----------------------------------------------------------------------------
(* Properties of the configuration patch *)

\* the override is one the patcher accepts, and the number it denotes
ValidOverride ==
    /\ Truthy(env["MAX_SANDBOX_INSTANCES"])
    /\ ~ParseInt(env["MAX_SANDBOX_INSTANCES"].s).nan
    /\ ParseInt(env["MAX_SANDBOX_INSTANCES"].s).n > 0

OverrideValue == ParseInt(env["MAX_SANDBOX_INSTANCES"].s).n

\* position of the containers line of a text, 0 when it has none
ContainersAt(text) ==
    LET at == {l \in 1..Len(text) : text[l].k = "containers"}
    IN  IF at = {} THEN 0 ELSE CHOOSE l \in at : \A m \in at : l <= m

\* position of the sandbox entry in the containers line, 0 when there is none
SandboxAt(text) ==
    IF ContainersAt(text) = 0 THEN 0
    ELSE LET es == text[ContainersAt(text)].entries
             at == {i \in 1..Len(es) : es[i].class_name = "UserAppSandboxService"}
         IN  IF at = {} THEN 0 ELSE CHOOSE i \in at : \A j \in at : i <= j

\* the path containers[sandbox].max_instances leads to an existing field
PathResolves(text) ==
    /\ SandboxAt(text) # 0
    /\ text[ContainersAt(text)].entries[SandboxAt(text)].max_instances.def

\* new differs from old at most in the max_instances field of the sandbox
\* entry: same lines in the same order, comments and notes included
SameElsewhere(old, new) ==
    /\ Len(new) = Len(old)
    /\ \A l \in 1..Len(old) :
          IF l # ContainersAt(old) THEN new[l] = old[l]
          ELSE /\ new[l].k = "containers"
               /\ Len(new[l].entries) = Len(old[l].entries)
               /\ \A i \in 1..Len(old[l].entries) :
                     /\ new[l].entries[i].class_name = old[l].entries[i].class_name
                     /\ new[l].entries[i].image = old[l].entries[i].image
                     /\ new[l].entries[i].note = old[l].entries[i].note
                     /\ i # SandboxAt(old) =>
                           new[l].entries[i].max_instances = old[l].entries[i].max_instances

PatchedLocally(old, new, n) ==
    /\ SameElsewhere(old, new)
    /\ new[ContainersAt(old)].entries[SandboxAt(old)].max_instances = [def |-> TRUE, n |-> n]

PastPatch == pc \in {"step7", "step8", "finish", "done"}

\* C13: for a document that holds a UserAppSandboxService entry with a
\* max_instances field and a valid positive override, once
\* updateContainerConfiguration has returned the document on disk reads the
\* override at that field and equals the document read in every other line,
\* field, comment and position.
C13_PatchLocality ==
    (ValidOverride /\ PastPatch) =>
        /\ patch.state \in {"read", "written"}
        /\ PathResolves(patch.content) =>
              /\ patch.state = "written"
              /\ PatchedLocally(patch.content, wrangler.text, OverrideValue)

C13_Witness ==
    /\ pc = "step7"
    /\ patch.state = "written"
    /\ patch.content = FullDoc
    /\ env["MAX_SANDBOX_INSTANCES"].s = <<"2", "5">>
    /\ wrangler.text[6].entries[1].max_instances.n = 25
    /\ wrangler.text[6].entries[1].note = 3
    /\ wrangler.text[1] = Comment(1)

\* C14: when the document read by the patcher has no containers array, no
\* UserAppSandboxService entry, or such an entry without a max_instances
\* field, the patcher fails fatally (the run exits with status 1 on the
\* patcher's error) and the document on disk is the document read, no field
\* added.
C14_UnresolvedPathIsFatal ==
    (patch.state # "none" /\ patch.content # <<>> /\ ~PathResolves(patch.content)) =>
        /\ pc = "exited"
        /\ exitStatus = Exited(1)
        /\ thrown # <<>>
        /\ thrown[1].message.text = "Failed to update container configuration"
        /\ wrangler.text = patch.content

\* C15: the new text is complete before the file is touched, and at every
\* moment the file holds either the complete text that was read or the
\* complete new text.
C15_AtomicWrite ==
    patch.updatedContent # <<>> =>
        /\ PatchedLocally(patch.content, patch.updatedContent, OverrideValue)
        /\ wrangler.text \in {patch.content, patch.updatedContent}

\* C16: whatever the order of the containers array, the entry whose
\* max_instances the patcher sets is the one whose class_name is
\* UserAppSandboxService, and every other entry keeps its max_instances.
C16_AddressedByClassName ==
    patch.state = "written" =>
        LET old == patch.content[ContainersAt(patch.content)].entries
            new == wrangler.text[ContainersAt(patch.content)].entries
        IN  /\ Len(new) = Len(old)
            /\ \A i \in 1..Len(old) :
                  IF old[i].class_name = "UserAppSandboxService"
                  THEN new[i].class_name = "UserAppSandboxService"
                  ELSE new[i] = old[i]
            /\ \E i \in 1..Len(old) :
                  /\ new[i].class_name = "UserAppSandboxService"
                  /\ new[i].max_instances = [def |-> TRUE, n |-> OverrideValue]

C16_Witness ==
    /\ patch.state = "written"
    /\ patch.content = ReorderedDoc
    /\ env["MAX_SANDBOX_INSTANCES"].s = <<"2", "5">>
    /\ wrangler.text[4].entries[2].class_name = "UserAppSandboxService"
    /\ wrangler.text[4].entries[2].max_instances.n = 25
    /\ wrangler.text[4].entries[1].max_instances.n = 5

\* C17: when the remote deploy starts, every write of the patcher to
\* wrangler.jsonc has completed; when the patcher has failed, the run has
\* exited with status 1 and the remote deploy was never started.
C17_PatchWrittenBeforeDeploy ==
    /\ \A i \in 1..Len(trace) : trace[i] = "exec wrangler deploy" =>
          /\ patch.state \in {"none", "read", "written"}
          /\ \A j \in 1..Len(trace) : trace[j] = "writeFileSync wrangler.jsonc" =>
                \E k \in (j + 1)..(i - 1) : trace[k] = "wrangler.jsonc written"
          /\ patch.state = "written" => wrangler.text = patch.updatedContent
    /\ patch.state = "writing" => pc = "step6 writing"
    /\ patch.state = "failed" =>
          /\ ~Has("exec wrangler deploy")
          /\ pc = "exited"
          /\ exitStatus = Exited(1)

C17_Witness ==
    /\ Has("exec wrangler deploy")
    /\ Has("wrangler.jsonc written")
    /\ patch.state = "written"
    /\ wrangler.text = patch.updatedContent

-----------------------------------------------------------------------------
(* Properties of the order of provisioning and of the secrets file *)

\* C18: whenever the remote deploy has started, ensureDispatchNamespace has
\* run to its end, and so has ensureAIGateway when a gateway is configured.
C18_ProvisioningJoinsBeforeDeploy ==
    Has("exec wrangler deploy") =>
        /\ prov.ns.pc = "done"
        /\ calls["ns.get"][1] > 0
        /\ GatewayConfigured => prov.gw.pc = "done"

AllowList ==
    {"CLOUDFLARE_API_TOKEN", "CLOUDFLARE_ACCOUNT_ID", "TEMPLATES_REPOSITORY",
     "CLOUDFLARE_AI_GATEWAY", "CLOUDFLARE_AI_GATEWAY_URL", "CLOUDFLARE_AI_GATEWAY_TOKEN",
     "ANTHROPIC_API_KEY", "OPENAI_API_KEY", "GEMINI_API_KEY", "OPENROUTER_API_KEY",
     "GROQ_API_KEY", "GOOGLE_CLIENT_SECRET", "GOOGLE_CLIENT_ID", "GITHUB_CLIENT_ID",
     "GITHUB_CLIENT_SECRET", "JWT_SECRET", "WEBHOOK_SECRET", "MAX_SANDBOX_INSTANCES"}

HasPlaceholderPrefix(v) ==
    \/ Len(v) >= 9 /\ SubSeq(v, 1, 9) = <<"o", "p", "t", "i", "o", "n", "a", "l", "-">>
    \/ Len(v) >= 5 /\ SubSeq(v, 1, 5) = <<"y", "o", "u", "r", "-">>

LinesFor(name) == {i \in 1..Len(prodVars.text) : prodVars.text[i].name = name}

\* C19: the secrets file generated by the run holds exactly one line for each
\* name of the allow-list; the line is live, with the value of the variable,
\* exactly when the variable is set, not empty and without the prefix
\* 'optional-' or 'your-', and is a comment otherwise; no live line carries a
\* value with such a prefix.
C19_SecretsFileLines ==
    Has(".prod.vars written") =>
        /\ \A name \in AllowList :
              /\ Cardinality(LinesFor(name)) = 1
              /\ \A i \in LinesFor(name) :
                    /\ prodVars.text[i].live <=>
                          /\ env[name].def
                          /\ env[name].s # <<>>
                          /\ ~HasPlaceholderPrefix(env[name].s)
                    /\ prodVars.text[i].live => prodVars.text[i].value = env[name].s
        /\ \A i \in 1..Len(prodVars.text) :
              prodVars.text[i].live => ~HasPlaceholderPrefix(prodVars.text[i].value)

C19_Witness ==
    /\ Has(".prod.vars written")
    /\ env["CLOUDFLARE_AI_GATEWAY_TOKEN"].s = PlaceholderToken
    /\ \E i \in LinesFor("CLOUDFLARE_AI_GATEWAY_TOKEN") :
          ~prodVars.text[i].live /\ prodVars.text[i].value = PlaceholderToken
    /\ \E i \in LinesFor("ANTHROPIC_API_KEY") :
          ~prodVars.text[i].live /\ prodVars.text[i].value = <<"y", "o", "u", "r", "-", "k", "e", "y">>
    /\ \E i \in LinesFor("CLOUDFLARE_API_TOKEN") : prodVars.text[i].live

\* C20: when writing the generated secrets file fails, the bulk upload is not
\* started, no error leaves updateSecrets and the run ends with status 0.
C20_GenerationFailureContained ==
    Has("writeFileSync .prod.vars failed") =>
        /\ ~Has("exec wrangler secret bulk .prod.vars")
        /\ ~prodVars.exists
        /\ thrown = <<>>
        /\ stderr = <<>>
        /\ pc \in {"finish", "done"}
        /\ exitStatus # Exited(1)
        /\ pc = "done" => exitStatus = Exited(0)

C20_Witness ==
    /\ Has("writeFileSync .prod.vars failed")
    /\ "Could not create .prod.vars file" \in {warnings[i] : i \in 1..Len(warnings)}
    /\ pc = "done"
    /\ exitStatus = Exited(0)

-----------------------------------------------------------------------------
(* Properties of diagnostics and of the configuration document *)

Printed(m) == \E i \in 1..Len(stderr) : stderr[i] = m

\* C21: whenever the run has ended with status 1, the error stream holds the
\* diagnostic block: its heading, the message of the failure, the message of
\* its cause when it has one, and the troubleshooting guidance.
C21_DiagnosticsOnFatalExit ==
    exitStatus = Exited(1) =>
        /\ thrown # <<>>
        /\ Printed(Msg("Deployment failed", <<>>))
        /\ Printed(thrown[1].message)
        /\ thrown[1].cause # <<>> => Printed(thrown[1].cause[1].message)
        /\ Printed(Msg("Troubleshooting tips", <<>>))

\* the text of wrangler.jsonc as the constructor found it
LoadedText == IF patch.content # <<>> THEN patch.content ELSE wrangler.text

\* the text is not a JSONC document: it holds no value or a line that is not
\* JSONC
Unparsable(text) ==
    \/ \A l \in 1..Len(text) : text[l].k = "comment"
    \/ \E l \in 1..Len(text) : text[l].k = "garbage"

\* C22: when wrangler.jsonc is absent or its content is unparsable, the run
\* ends in the constructor with a DeploymentError and status 1, no remote
\* call issued, and no later step of the run is ever executed.
C22_LoadFailsOnAbsentOrUnparsable ==
    (/\ pc # "start"
     /\ \A v \in RequiredSet : ~AbsentOrEmpty(env[v])
     /\ ~wrangler.exists \/ Unparsable(LoadedText)) =>
        /\ pc = "exited"
        /\ exitStatus = Exited(1)
        /\ thrown # <<>>
        /\ thrown[1].name = "DeploymentError"
        /\ calls = NoCalls
        /\ config = NoTree
        /\ patch = NoPatch
        /\ ~Has("exec wrangler deploy")

\* C23: whenever no write of the patcher is in progress, the tree held by the
\* manager is the tree of the text on disk; in particular, after the patcher
\* has written, the tree has been regenerated from the new text.
C23_TreeAgreesWithText ==
    (config.def /\ patch.state \in {"none", "read", "written"}) =>
        /\ config = parse(wrangler.text)
        /\ \A i \in 1..Len(config.containers) :
              config.containers[i].max_instances =
                 wrangler.text[ContainersAt(wrangler.text)].entries[i].max_instances

WritesOfWrangler == {i \in 1..Len(trace) : trace[i] = "writeFileSync wrangler.jsonc"}

\* C24: a step of the run changes wrangler.jsonc only if it is the patcher's
\* write, and the patcher starts a write only when the run has made none
\* before: the document is written at most once, by updateContainerConfiguration.
C24_SingleWriter ==
    [][wrangler' # wrangler =>
          /\ pc \in {"step6", "step6 writing"}
          /\ pc = "step6" => WritesOfWrangler = {}
          /\ Cardinality(WritesOfWrangler') = 1]_vars

C24_Witness ==
    /\ pc = "done"
    /\ patch.state = "written"
    /\ wrangler.text # patch.content
    /\ Cardinality(WritesOfWrangler) = 1
    /\ Has(".prod.vars written")

-----------------------------------------------------------------------------
(* Properties of the credential request and of the provisioning operations *)

\* C25: every credential request carries exactly one policy, which allows,
\* is scoped to the target account, and grants nothing beyond the gateway
\* read, edit and run permissions; its IP restriction is empty and its expiry
\* lies exactly 365 days after the instant of the request.
C25_IssuedCredentialIsMinimal ==
    prov.gw.tokenRequest # <<>> =>
        LET r == prov.gw.tokenRequest[1]
        IN  /\ Len(r.body.policies) = 1
            /\ r.body.policies[1].effect = "allow"
            /\ r.body.policies[1].resources.account = env["CLOUDFLARE_ACCOUNT_ID"].s
            /\ {r.body.policies[1].permission_groups[i] :
                    i \in 1..Len(r.body.policies[1].permission_groups)}
                  = {"AI Gateway Read", "AI Gateway Edit", "AI Gateway Run"}
            /\ r.body.condition.request_ip.in = <<>>
            /\ r.body.condition.request_ip.not_in = <<>>
            /\ r.body.expires_on - r.at = 31536000

BothDone == prov.ns.pc = "done" /\ prov.gw.pc = "done"

\* what each operation yields when it runs alone against the control plane
\* the run started from
ExpectedNs ==
    IF config.dispatch_namespaces = <<>> THEN "failed"
    ELSE IF "ns" \in prov.start THEN "exists" ELSE "created"

ExpectedGw ==
    IF ~GatewayConfigured THEN "skipped"
    ELSE IF "gw" \in prov.start THEN "exists"
    ELSE IF Len(env["CLOUDFLARE_AI_GATEWAY"].s) > 64 THEN "skipped"
    ELSE "created"

\* C26: with a control plane that answers according to its state, whatever
\* the interleaving of the remote calls of ensureDispatchNamespace and
\* ensureAIGateway, a run ends with the outcomes each operation has when run
\* alone from the same initial control plane, and with the control plane that
\* results from them.
C26_InterleavingInsensitive ==
    (BothDone /\ ~prov.faulted) =>
        /\ prov.ns.outcome = ExpectedNs
        /\ prov.gw.outcome = ExpectedGw
        /\ cp = prov.start \cup (IF ExpectedNs = "created" THEN {"ns"} ELSE {})
                           \cup (IF ExpectedGw = "created" THEN {"gw"} ELSE {})
        /\ prov.ns.error # <<>> <=> ExpectedNs = "failed"
        /\ prov.gw.error = <<>>

C26_Witness ==
    /\ BothDone
    /\ ~prov.faulted
    /\ round = 1
    /\ prov.start = {}
    /\ cp = {"ns", "gw"}
    /\ prov.ns.outcome = "created"
    /\ prov.gw.outcome = "created"
    /\ prov.gw.issue = "issued"

\* C27: when CLOUDFLARE_AI_GATEWAY is not provided, the gateway step works on
\* the default name: it is not skipped and it fetches the gateway.
C27_DefaultGatewayName ==
    (~GatewayConfigured /\ prov.gw.pc = "done") =>
        /\ prov.gw.outcome # "skipped"
        /\ calls["gw.get"][round] > 0

\* the gateway fetch failed with an error that does not mean not-found
FetchFailedOtherwise ==
    /\ prov.gw.fetchErr # <<>>
    /\ prov.gw.fetchErr[1].status # 404
    /\ ~(prov.gw.fetchErr[1].message.def
         /\ \E i \in 1..(Len(prov.gw.fetchErr[1].message.s) - 8) :
               SubSeq(prov.gw.fetchErr[1].message.s, i, i + 8)
                  = <<"n", "o", "t", " ", "f", "o", "u", "n", "d">>)

\* C28: whatever token verification, credential issuance, the gateway fetch
\* and the gateway create answer, ensureAIGateway raises no error; after a
\* fetch error other than not-found it issues no create call and ends with a
\* warning; after a rejected create it ends with a warning.
C28_GatewayNeverThrows ==
    /\ prov.gw.error = <<>>
    /\ FetchFailedOtherwise =>
          /\ prov.gw.pc = "done"
          /\ prov.gw.outcome = "warned"
          /\ prov.gw.createArgs = <<>>
          /\ calls["gw.create"][round] = 0
          /\ prov.gw.warns # <<>>
    /\ prov.gw.createErr # <<>> =>
          /\ prov.gw.pc = "done"
          /\ prov.gw.outcome = "warned"
          /\ prov.gw.warns # <<>>

C28_Witness ==
    /\ prov.gw.pc = "done"
    /\ prov.gw.createErr = <<ErrServer>>
    /\ prov.gw.issue = "throws"
    /\ prov.gw.outcome = "warned"
    /\ prov.gw.error = <<>>
    /\ prov.gw.warns[Len(prov.gw.warns)] = "Could not create AI Gateway"

-----------------------------------------------------------------------------
(* Properties of deployTemplates *)

HasTemplatesBucket ==
    \E l \in 1..Len(wrangler.text) :
        wrangler.text[l].k = "r2" /\ wrangler.text[l].binding = "TEMPLATES_BUCKET"

Warned(w) == \E i \in 1..Len(warnings) : warnings[i] = w

\* C29: deployTemplates lets no error out; after a failed clone, without a
\* TEMPLATES_BUCKET binding, without the deploy script or after a failing
\* deploy script it has ended with a warning; and the deploy script is never
\* executed after a failed clone or without a TEMPLATES_BUCKET binding.
C29_TemplatesNeverThrow ==
    /\ thrown = <<>>
    /\ exitStatus = Running
    /\ Has("git clone failed") =>
          /\ ~Has("exec ./deploy_templates.sh")
          /\ Warned("Templates deployment failed")
    /\ ~HasTemplatesBucket =>
          /\ ~Has("exec ./deploy_templates.sh")
          /\ (pc = "templates done" /\ ~Has("git clone failed") /\ ~Has("mkdir failed"))
                => Warned("Templates deployment failed")
    /\ Has("deploy script failed") => Warned("Templates deployment failed")
    /\ Has("exec ./deploy_templates.sh") => templates.script /\ templates.git
    /\ (/\ pc = "templates done" /\ HasTemplatesBucket /\ ~templates.script
        /\ ~Has("git clone failed") /\ ~Has("mkdir failed")) =>
          /\ Warned("deploy_templates.sh not found")
          /\ ~Has("exec ./deploy_templates.sh")

C29_Witness ==
    /\ pc = "templates done"
    /\ ~HasTemplatesBucket
    /\ Has("git clone ok")
    /\ Warned("Templates deployment failed")
    /\ ~Has("exec ./deploy_templates.sh")
    /\ thrown = <<>>

-----------------------------------------------------------------------------
(* Properties of an existing secrets file *)

\* C30: a step of the run changes .prod.vars only when the file did not exist
\* before the step; when updateSecrets starts with the file present, it
\* writes nothing, leaves the file as it is and runs the bulk upload on it.
C30_ExistingSecretsFileKept ==
    [][/\ prodVars' # prodVars => ~prodVars.exists /\ pc = "step8"
       /\ (pc = "step8" /\ prodVars.exists) =>
             /\ prodVars' = prodVars
             /\ \A i \in 1..Len(trace') : trace'[i] # "writeFileSync .prod.vars"
             /\ \E i \in 1..Len(trace') : trace'[i] = "exec wrangler secret bulk .prod.vars"]_vars

C30_Witness ==
    /\ pc = "done"
    /\ prodVars.exists
    /\ Has("exec wrangler secret bulk .prod.vars")
    /\ ~Has("writeFileSync .prod.vars")
    /\ prodVars.text = <<HeaderLine("kept by hand")>>

\* ---------------------------------------------------------------------------
\* C31: when the gateway name is absent the gateway step ends as skipped and
\* sends no remote request at all (no permission check, no credential
\* issuance, no fetch, no create), in any round, and records no error.
GatewayCallKinds == {"tokens.verify", "tokens.create", "gw.get", "gw.create"}

NoDispatchEntry == \A i \in 1..Len(wrangler.text) : wrangler.text[i].k # "dispatch"

C37_NoDispatchEntryFailsWithoutCalls ==
    NoDispatchEntry =>
        /\ \A r \in 1..Rounds : calls["ns.get"][r] = 0 /\ calls["ns.create"][r] = 0
        /\ prov.ns.pc \in {"start", "done"}
        /\ prov.ns.pc = "done" =>
              /\ prov.ns.outcome = "failed"
              /\ Len(prov.ns.error) = 1
              /\ prov.ns.error[1].name = "DeploymentError"
              /\ prov.ns.error[1].message =
                     Msg("No dispatch namespace configuration found in wrangler.jsonc", <<>>)
              /\ prov.ns.error[1].cause = <<>>
        /\ "ns" \in cp <=> "ns" \in prov.start

C37_Witness ==
    /\ NoDispatchEntry
    /\ prov.ns.pc = "done"
    /\ prov.ns.outcome = "failed"
    /\ prov.gw.pc = "done"

\* ---------------------------------------------------------------------------
\* C34: a CLOUDFLARE_AI_GATEWAY_TOKEN value that the secrets file treats as a
\* placeholder (prefix 'optional-' or 'your-') is never reused as the live
\* gateway credential.
PlaceholderForSecrets ==
    /\ env["CLOUDFLARE_AI_GATEWAY_TOKEN"].def
    /\ HasPlaceholderPrefix(env["CLOUDFLARE_AI_GATEWAY_TOKEN"].s)

C34_PlaceholderNeverReused ==
    PlaceholderForSecrets =>
        /\ prov.gw.token # env["CLOUDFLARE_AI_GATEWAY_TOKEN"]
        /\ prov.gw.sdk # env["CLOUDFLARE_AI_GATEWAY_TOKEN"]
        /\ \A i \in 1..Len(prov.gw.createArgs) :
               prov.gw.createArgs[i].authentication => prov.gw.issue = "issued"

\* ---------------------------------------------------------------------------
\* C35: a fetch error of one shape is classified the same way by the
\* namespace step and by the gateway step: both take it for not-found or
\* both take it for another error.
NsTookNotFound ==
    /\ prov.ns.fetchErr # <<>>
    /\ \/ prov.ns.pc = "create"
       \/ prov.ns.outcome = "created"
       \/ prov.ns.createErr # <<>>

GwTookNotFound ==
    /\ prov.gw.fetchErr # <<>>
    /\ \A i \in 1..Len(prov.gw.warns) : prov.gw.warns[i] # "Could not check AI Gateway"

C35_NotFoundPredicatesAgree ==
    (prov.ns.fetchErr # <<>> /\ prov.gw.fetchErr = prov.ns.fetchErr) =>
        (NsTookNotFound <=> GwTookNotFound)

\* ---------------------------------------------------------------------------
\* C36: with a gateway name over the limit and no usable gateway token the
\* gateway step sends no mutating request: no gateway create and no
\* credential issuance.
C36_OverLimitSendsNoMutation ==
    (OverLimit /\ ~TokenPresent) =>
        \A r \in 1..Rounds :
            calls["gw.create"][r] = 0 /\ calls["tokens.create"][r] = 0

\* ---------------------------------------------------------------------------
\* C32: with MAX_SANDBOX_INSTANCES unset, not a number or not strictly
\* positive the container step leaves wrangler.jsonc as it is, raises no
\* error and hands over to the remote deploy step.
UnsetOrInvalidOverride ==
    \/ ~env["MAX_SANDBOX_INSTANCES"].def
    \/ env["MAX_SANDBOX_INSTANCES"].s \in
           {<<>>, <<"a", "b", "c">>, <<"0">>, <<"-", "5">>}

C32_InvalidOverrideLeavesDocument ==
    [][(pc = "step6" /\ UnsetOrInvalidOverride) =>
          /\ wrangler' = wrangler
          /\ patch' = NoPatch
          /\ thrown' = <<>>
          /\ exitStatus' = Running
          /\ stderr' = stderr
          /\ trace' = trace
          /\ pc' = "step7"]_vars

C32_Witness ==
    /\ env["MAX_SANDBOX_INSTANCES"] = Str(<<"0">>)
    /\ Warned("Invalid MAX_SANDBOX_INSTANCES value")
    /\ wrangler.text = FullDoc
    /\ patch = NoPatch
    /\ Has("exec wrangler deploy")

\* ---------------------------------------------------------------------------
\* C33: the patch is idempotent: in a later run with the same valid override
\* the patcher computes, and writes, the very document it read, which is
\* the document the earlier run wrote.
C33_PatchIdempotent ==
    (round > 1 /\ ValidOverride) =>
        /\ patch.state \in {"writing", "written"} => patch.updatedContent = patch.content
        /\ patch.state = "written" => wrangler.text = patch.content

C33_Witness ==
    /\ round = 2
    /\ ValidOverride
    /\ patch.state = "written"
    /\ wrangler.text = patch.content
    /\ PathResolves(wrangler.text)
    /\ wrangler.text[ContainersAt(wrangler.text)].entries[SandboxAt(wrangler.text)].max_instances
           = Field(OverrideValue)
    /\ wrangler.text # FullDoc

\* ---------------------------------------------------------------------------
\* C38: every run terminates, in one of two terminal states (completed with
\* status 0, or exited with status 1 after an error); the run only moves
\* forward through its steps, so no step is taken twice and nothing is
\* retried, and nothing happens after a terminal state.
StepRank(p) ==
    CASE p = "start" -> 0
      [] p = "step6" -> 1
      [] p = "step6 writing" -> 2
      [] p = "step7" -> 3
      [] p = "step8" -> 4
      [] p = "finish" -> 5
      [] OTHER -> 6

TerminalStateIsOneOfTwo ==
    /\ ~Terminated => exitStatus = Running
    /\ Terminated =>
          \/ pc = "done" /\ exitStatus = Exited(0) /\ thrown = <<>>
          \/ pc = "exited" /\ exitStatus = Exited(1) /\ thrown # <<>>

C38_RunTerminatesOnce ==
    /\ <>Terminated
    /\ []TerminalStateIsOneOfTwo
    /\ [][~Terminated /\ StepRank(pc') > StepRank(pc)]_vars
    /\ [](Cardinality({i \in 1..Len(trace) : trace[i] = "exec wrangler deploy"}) <= 1)

C38_Witness ==
    /\ pc = "done"
    /\ exitStatus = Exited(0)
    /\ Has("wrangler deploy ok")
    /\ patch.state = "written"

\* ---------------------------------------------------------------------------
\* C39: setupDatabase runs the migrations, then the initialization of the
\* system defaults, then the health check, each only after the one before it
\* has completed; a failure of a step leaves the later steps unrun and ends
\* the process with status 1.
DbCalls == <<"runMigrations", "initializeSystemDefaults", "getDatabase">>

DbCompletions == <<"Migrations completed successfully", "System defaults initialized",
                   "Database connection verified">>

C39_DatabaseStepsInOrder ==
    /\ \A k \in 1..3 :
          /\ Cardinality({i \in 1..Len(trace) : trace[i] = DbCalls[k]}) <= 1
          /\ Precedes(DbCalls[k], DbCompletions[k])
          /\ k > 1 => Precedes(DbCompletions[k - 1], DbCalls[k])
    /\ thrown # <<>> <=> pc = "exited"
    /\ thrown # <<>> =>
          /\ exitStatus = Exited(1)
          /\ \E k \in 1..3 :
                /\ trace[Len(trace)] = DbCalls[k]
                /\ \A j \in k..3 : ~Has(DbCompletions[j])
                /\ \A j \in (k + 1)..3 : ~Has(DbCalls[j])
    /\ thrown = <<>> => (exitStatus = Exited(0) <=> pc = "done")
    /\ pc = "done" => \A k \in 1..3 : Has(DbCompletions[k])

C39_Witness ==
    /\ pc = "exited"
    /\ exitStatus = Exited(1)
    /\ Has("Migrations completed successfully")
    /\ trace[Len(trace)] = "initializeSystemDefaults"
    /\ ~Has("getDatabase")

====
